---- MODULE Spec2Model ----
(***************************************************************************)
(* django-markupfield: a text field backed by three attributes of the host *)
(* model instance (raw text, markup type, rendered cache), a descriptor    *)
(* that mediates reads and writes of the field, the Markup accessor it     *)
(* hands out, and the pre_save hook that renders at persistence time.      *)
(***************************************************************************)
EXTENDS Naturals, Sequences, FiniteSets, TLC

(***************************************************************************)
(* Python values.  Every value carries its type so that None, strings,     *)
(* dictionaries, functions, classes and Markup objects can be told apart.  *)
(***************************************************************************)
None == [type |-> "NoneType"]

Str(s) == [type |-> "str", val |-> s]

Dict(d) == [type |-> "dict", val |-> d]

Function(n) == [type |-> "function", name |-> n]

Class(n) == [type |-> "classobj", name |-> n]

\* Python truth value of None, a string or a dictionary.
Truthy(v) ==
    CASE v.type = "NoneType" -> FALSE
      [] v.type = "str" -> v.val # ""
      [] v.type = "dict" -> DOMAIN v.val # {}
      [] OTHER -> TRUE

\* Python's "a or b".
Or(a, b) == IF Truthy(a) THEN a ELSE b

\* Python's "k in d" for a dictionary d with string keys.
In(k, d) == k.type = "str" /\ k.val \in DOMAIN d.val

\* ', '.join(d.iterkeys()), kept as the set of keys that are listed.
JoinKeys(d) == DOMAIN d.val

ValueError(msg, shown, allowed) ==
    [type |-> "ValueError", msg |-> msg, shown |-> shown, allowed |-> allowed]

KeyError(k) == [type |-> "KeyError", key |-> k]

AttributeError(msg) == [type |-> "AttributeError", msg |-> msg]

TypeError(msg) == [type |-> "TypeError", msg |-> msg]

(***************************************************************************)
(* Attribute names of the two companion attributes of a field.             *)
(***************************************************************************)
_rendered_field_name_shared(name) == "_rendered"

_rendered_field_name(name) == "_" \o name \o "_rendered"

_markup_type_field_name(name) == name \o "_markup_type"

(***************************************************************************)
(* Registries.  The process-wide registry holds the html and plain         *)
(* functions and, with the markdown library installed, markdown.           *)
(***************************************************************************)
_DEFAULT_MARKUP_TYPES ==
    Dict([html |-> Function("html"),
          plain |-> Function("plain"),
          markdown |-> Function("markdown")])

_MARKUP_TYPES == _DEFAULT_MARKUP_TYPES

CUSTOM_MARKUP_FIELD_TYPES ==
    Dict([markdown |-> Function("markdown"),
          ReST |-> Class("RestructuredtextMarkup")])

\* Calling a registered plain function on a string.  html is the identity;
\* the other functions belong to external libraries and are kept as opaque
\* applications, distinct per function.
Call(fn, markup) ==
    IF fn.name = "html" THEN markup
    ELSE Str(fn.name \o "(" \o markup.val \o ")")

\* RestructuredtextMarkup.render(): docutils applied to the raw text that
\* the accessor reads from its instance.  What docutils does with a source
\* of None is not decided by this code: it may raise or return a fragment.
RestructuredtextMarkup_render(raw) ==
    IF raw.type = "str"
    THEN {[err |-> None, val |-> Str("rest(" \o raw.val \o ")")]}
    ELSE {[err |-> TypeError("docutils source"), val |-> None],
          [err |-> None, val |-> Str("rest(None)")]}

(***************************************************************************)
(* MarkupField.__init__                                                    *)
(***************************************************************************)
MarkupField_init_requires_type(markup_type, markup_choices, default_markup_type) ==
    LET dflt == Or(markup_type, default_markup_type)
        choices == Or(markup_choices, _MARKUP_TYPES)
    IN  IF Truthy(markup_type)
           /\ (Truthy(markup_choices) \/ Truthy(default_markup_type))
        THEN [err |-> ValueError("Cannot specify both markup_type and markup_choices/default_markup_type", None, {})]
        ELSE IF ~Truthy(default_markup_type) /\ ~Truthy(markup_type)
        THEN [err |-> ValueError("No default_markup_type specified.", None, {})]
        ELSE IF ~In(dflt, choices)
        THEN [err |-> ValueError("Invalid markup type, allowed values", None, JoinKeys(choices))]
        ELSE [err |-> None,
              default_markup_type |-> dflt,
              markup_choices |-> choices,
              markup_type_editable |-> (markup_type = None)]

MarkupField_init_unchecked_type(markup_type, markup_choices, default_markup_type) ==
    LET dflt == Or(markup_type, default_markup_type)
        choices == Or(markup_choices, _MARKUP_TYPES)
    IN  IF Truthy(markup_type)
           /\ (Truthy(markup_choices) \/ Truthy(default_markup_type))
        THEN [err |-> ValueError("Cannot specify both markup_type and markup_choices/default_markup_type", None, {})]
        ELSE IF Truthy(markup_choices) /\ ~Truthy(default_markup_type)
        THEN [err |-> ValueError("No default_markup_type specified.", None, {})]
        ELSE [err |-> None,
              default_markup_type |-> dflt,
              markup_choices |-> choices,
              markup_type_editable |-> (markup_type = None)]

MarkupField_init(markup_type, markup_choices, default_markup_type) ==
    LET dflt == Or(markup_type, default_markup_type)
        choices == Or(markup_choices, _MARKUP_TYPES)
    IN  IF Truthy(markup_type)
           /\ (Truthy(markup_choices) \/ Truthy(default_markup_type))
        THEN [err |-> ValueError("Cannot specify both markup_type and markup_choices/default_markup_type", None, {})]
        ELSE IF Truthy(markup_choices) /\ ~Truthy(default_markup_type)
        THEN [err |-> ValueError("No default_markup_type specified.", None, {})]
        ELSE IF Truthy(dflt) /\ ~In(dflt, choices)
        THEN [err |-> ValueError("Invalid markup type, allowed values", None, JoinKeys(choices))]
        ELSE [err |-> None,
              default_markup_type |-> dflt,
              markup_choices |-> choices,
              markup_type_editable |-> (markup_type = None)]

(***************************************************************************)
(* The model classes of the test application and their field declarations. *)
(***************************************************************************)
Models == {"Post", "Article", "CustomArticle"}

FieldNames(m) ==
    CASE m = "Post" -> {"body"}
      [] m = "Article" -> {"normal_field", "default_field", "markdown_field"}
      [] m = "CustomArticle" -> {"text"}

Field(f) ==
    CASE f = "body" -> MarkupField_init(None, None, None)
      [] f = "normal_field" -> MarkupField_init(None, None, None)
      [] f = "default_field" -> MarkupField_init(None, None, Str("markdown"))
      [] f = "markdown_field" -> MarkupField_init(Str("markdown"), None, None)
      [] f = "text" -> MarkupField_init(None, CUSTOM_MARKUP_FIELD_TYPES, Str("ReST"))


(***************************************************************************)
(* Bounds and input sets.                                                  *)
(***************************************************************************)
\* Number of operations the caller performs on the instances.
MaxOps == 4

\* The instances that exist of each model class.
Recs(m) == IF m = "Article" THEN {"r1"} ELSE {"r1", "r2"}

\* Raw texts (and None) that the caller assigns.
Texts == {Str("a"), Str("b")}

RawValues == Texts \cup {None}

\* Markup types that the caller writes.  No registry holds all of them.
MarkupTypeValues == {None, Str("html"), Str("markdown"), Str("ReST")}

(***************************************************************************)
(* State.                                                                  *)
(*   model  the model class whose instances are operated on                *)
(*   inst   inst[r] is the attribute dictionary of instance r              *)
(*   acc    the value the caller holds from its latest read of a field     *)
(*   db     db[<<r, f>>] is what the latest successful pre_save of field f *)
(*          of r handed to storage (None before the first one)             *)
(*   dirty  dirty[<<r, f>>]: a Markup was assigned to the field after its  *)
(*          latest successful pre_save                                     *)
(*   last   the latest operation: its name, target, argument, the target's *)
(*          three attributes before it, the exception raised, the value    *)
(*          returned and the number of renderer invocations                *)
(*   nops   operations performed so far                                    *)
(***************************************************************************)
VARIABLES model, inst, acc, db, dirty, last, nops

vars == <<model, inst, acc, db, dirty, last, nops>>

IsMarkup(v) == v.type \in {"Markup", "RestructuredtextMarkup"}

\* The three attributes of field f in attribute dictionary d.
Slots(d, f) ==
    [raw |-> d[f],
     markup_type |-> d[_markup_type_field_name(f)],
     rendered |-> d[_rendered_field_name(f)]]

AttrNames(m) ==
    UNION {{f, _markup_type_field_name(f), _rendered_field_name(f)} :
           f \in FieldNames(m)}

\* Model.__init__ without keyword arguments: every attribute gets its
\* field's default.
NewInstance(m) ==
    [a \in AttrNames(m) |->
        IF \E f \in FieldNames(m) : a = _markup_type_field_name(f)
        THEN (Field(CHOOSE f \in FieldNames(m) :
                        a = _markup_type_field_name(f))).default_markup_type
        ELSE Str("")]

(***************************************************************************)
(* Markup: the accessor.  It holds the instance and the attribute names.   *)
(***************************************************************************)
Markup(cls, instance, field_name) ==
    [type |-> cls, instance |-> instance, field_name |-> field_name,
     rendered_field_name |-> _rendered_field_name(field_name),
     markup_type_field_name |-> _markup_type_field_name(field_name)]

Markup_get_raw(I, self) == I[self.instance][self.field_name]

Markup_get_markup_type(I, self) == I[self.instance][self.markup_type_field_name]

Markup_get_rendered_of_field(I, self) == I[self.instance][self.field_name]

Markup_get_rendered(I, self) == I[self.instance][self.rendered_field_name]

(***************************************************************************)
(* MarkupDescriptor.__get__ on instance r with attribute dictionary d.     *)
(***************************************************************************)
MarkupDescriptor_get_default_class(d, r, f) ==
    LET markup == d[f]
        markup_type == d[_markup_type_field_name(f)]
        markup_choices == Field(f).markup_choices
    IN  IF markup_type = None THEN [err |-> None, val |-> None]
        ELSE IF ~In(markup_type, markup_choices)
        THEN [err |-> KeyError(markup_type), val |-> None]
        ELSE IF markup = None THEN [err |-> None, val |-> None]
        ELSE [err |-> None, val |-> Markup("Markup", r, f)]

MarkupDescriptor_get(d, r, f) ==
    LET markup == d[f]
        markup_type == d[_markup_type_field_name(f)]
        markup_choices == Field(f).markup_choices
    IN  IF markup_type = None THEN [err |-> None, val |-> None]
        ELSE IF ~In(markup_type, markup_choices)
        THEN [err |-> KeyError(markup_type), val |-> None]
        ELSE IF markup_choices.val[markup_type.val].type = "function"
        THEN IF markup = None THEN [err |-> None, val |-> None]
             ELSE [err |-> None, val |-> Markup("Markup", r, f)]
        ELSE [err |-> None,
              val |-> Markup(markup_choices.val[markup_type.val].name, r, f)]

(***************************************************************************)
(* MarkupDescriptor.__set__: the instances after obj.f = value.            *)
(***************************************************************************)
MarkupDescriptor_set_keeps_type(I, obj, f, value) ==
    IF IsMarkup(value)
    THEN [I EXCEPT ![obj] =
            [@ EXCEPT ![f] = Markup_get_raw(I, value),
                      ![_rendered_field_name(f)] = Markup_get_rendered(I, value)]]
    ELSE [I EXCEPT ![obj][f] = value]

MarkupDescriptor_set_clears_rendered(I, obj, f, value) ==
    IF IsMarkup(value)
    THEN [I EXCEPT ![obj] =
            [@ EXCEPT ![f] = Markup_get_raw(I, value),
                      ![_rendered_field_name(f)] = Markup_get_rendered(I, value),
                      ![_markup_type_field_name(f)] = Markup_get_markup_type(I, value)]]
    ELSE [I EXCEPT ![obj] =
            [@ EXCEPT ![f] = value, ![_rendered_field_name(f)] = Str("")]]

MarkupDescriptor_set(I, obj, f, value) ==
    IF IsMarkup(value)
    THEN [I EXCEPT ![obj] =
            [@ EXCEPT ![f] = Markup_get_raw(I, value),
                      ![_rendered_field_name(f)] = Markup_get_rendered(I, value),
                      ![_markup_type_field_name(f)] = Markup_get_markup_type(I, value)]]
    ELSE [I EXCEPT ![obj][f] = value]

Markup_set_raw_invalidates(I, self, val) ==
    [MarkupDescriptor_set(I, self.instance, self.field_name, val)
        EXCEPT ![self.instance][self.rendered_field_name] = Str("")]

\* Markup._set_raw: setattr(instance, field_name, val) reaches the descriptor.
Markup_set_raw(I, self, val) ==
    MarkupDescriptor_set(I, self.instance, self.field_name, val)

Markup_set_markup_type_readonly(I, self, val) ==
    IF Field(self.field_name).markup_type_editable
    THEN [I EXCEPT ![self.instance][self.markup_type_field_name] = val]
    ELSE I

\* Markup._set_markup_type: setattr on the plain companion attribute.
Markup_set_markup_type(I, self, val) ==
    [I EXCEPT ![self.instance][self.markup_type_field_name] = val]

(***************************************************************************)
(* MarkupField.pre_save: the possible outcomes on instance r.  An outcome  *)
(* is the exception raised (or None), the value returned, the instances    *)
(* afterwards and the number of renderer invocations.                      *)
(***************************************************************************)
pre_save_raise_clobber(I, r, f, e, calls) ==
    [err |-> e, ret |-> None,
     inst |-> [I EXCEPT ![r][_rendered_field_name(f)] = None],
     calls |-> calls]

\* An exception leaves pre_save before its setattr.
pre_save_raise(I, r, f, e, calls) ==
    [err |-> e, ret |-> None, inst |-> I, calls |-> calls]

pre_save_store_nothing(I, r, f, value, rendered) ==
    [err |-> None, ret |-> Markup_get_raw(I, value), inst |-> I, calls |-> 1]

pre_save_store_renders_again(I, r, f, value, rendered) ==
    [err |-> None,
     ret |-> Markup_get_raw(I, value),
     inst |-> [I EXCEPT ![r][_rendered_field_name(f)] = rendered],
     calls |-> 2]

\* setattr(model_instance, _rendered_field_name(self.attname), rendered)
\* and return value.raw
pre_save_store(I, r, f, value, rendered) ==
    [err |-> None,
     ret |-> Markup_get_raw(I, value),
     inst |-> [I EXCEPT ![r][_rendered_field_name(f)] = rendered],
     calls |-> 1]

pre_save_unvalidated(I, r, f) ==
    LET markup_choices == Field(f).markup_choices
        markup_type == I[r][_markup_type_field_name(f)]
        entry == IF In(markup_type, markup_choices)
                 THEN markup_choices.val[markup_type.val]
                 ELSE Function("html")
        results ==
            IF entry.type = "function"
            THEN IF I[r][f] = None
                 THEN {[err |-> None, val |-> None]}
                 ELSE {[err |-> None, val |-> Call(entry, I[r][f])]}
            ELSE RestructuredtextMarkup_render(I[r][f])
    IN  {IF res.err # None
         THEN pre_save_raise(I, r, f, res.err, 1)
         ELSE pre_save_store(I, r, f, Markup("Markup", r, f), res.val) :
         res \in results}

pre_save_passes_none(I, r, f) ==
    LET got == MarkupDescriptor_get(I[r], r, f)
        value == got.val
        markup_choices == Field(f).markup_choices
    IN  IF got.err # None THEN {pre_save_raise(I, r, f, got.err, 0)}
        ELSE IF value = None
        THEN {[err |-> None, ret |-> None, inst |-> I, calls |-> 0]}
        ELSE LET entry == markup_choices.val[Markup_get_markup_type(I, value).val]
                 results ==
                    IF entry.type = "function"
                    THEN {[err |-> None, val |-> Call(entry, Markup_get_raw(I, value))]}
                    ELSE RestructuredtextMarkup_render(Markup_get_raw(I, value))
             IN  {IF res.err # None
                  THEN pre_save_raise(I, r, f, res.err, 1)
                  ELSE pre_save_store(I, r, f, value, res.val) : res \in results}

pre_save(I, r, f) ==
    LET got == MarkupDescriptor_get(I[r], r, f)
        value == got.val
        markup_choices == Field(f).markup_choices
    IN  IF got.err # None THEN {pre_save_raise(I, r, f, got.err, 0)}
        ELSE IF value = None
        THEN {pre_save_raise(I, r, f,
                AttributeError("'NoneType' object has no attribute 'markup_type'"), 0)}
        ELSE IF ~In(Markup_get_markup_type(I, value), markup_choices)
        THEN {pre_save_raise(I, r, f,
                ValueError("Invalid markup type",
                           Markup_get_markup_type(I, value),
                           JoinKeys(markup_choices)), 0)}
        ELSE LET entry == markup_choices.val[Markup_get_markup_type(I, value).val]
                 results ==
                    IF entry.type = "function"
                    THEN {[err |-> None, val |-> Call(entry, Markup_get_raw(I, value))]}
                    ELSE RestructuredtextMarkup_render(Markup_get_raw(I, value))
             IN  {IF res.err # None
                  THEN pre_save_raise(I, r, f, res.err, 1)
                  ELSE pre_save_store(I, r, f, value, res.val) : res \in results}

(***************************************************************************)
(* MarkupField.get_db_prep_value and MarkupField.value_to_string.          *)
(***************************************************************************)
get_db_prep_value(I, value) ==
    IF IsMarkup(value) THEN Markup_get_raw(I, value) ELSE value

\* value = self._get_val_from_obj(obj) reads the field through the
\* descriptor; value.raw fails on None.
value_to_string(I, r, f) ==
    LET got == MarkupDescriptor_get(I[r], r, f)
    IN  IF got.err # None THEN [err |-> got.err, ret |-> None]
        ELSE IF got.val = None
        THEN [err |-> AttributeError("'NoneType' object has no attribute 'raw'"),
              ret |-> None]
        ELSE [err |-> None, ret |-> Markup_get_raw(I, got.val)]

(***************************************************************************)
(* Operations of the caller.                                               *)
(***************************************************************************)
Hosts == Recs(model) \X FieldNames(model)

Op(name, r, f, arg, err, ret, calls) ==
    [op |-> name, rec |-> r, field |-> f, arg |-> arg,
     pre |-> Slots(inst[r], f), err |-> err, ret |-> ret, calls |-> calls]

Init ==
    /\ model \in Models
    /\ inst = [r \in Recs(model) |-> NewInstance(model)]
    /\ acc = None
    /\ db = [h \in Recs(model) \X FieldNames(model) |-> None]
    /\ dirty = [h \in Recs(model) \X FieldNames(model) |-> FALSE]
    /\ last = [op |-> "__init__"]
    /\ nops = 0

\* a = r.f
Get(r, f) ==
    /\ nops < MaxOps
    /\ LET got == MarkupDescriptor_get(inst[r], r, f)
       IN  /\ acc' = IF got.err = None THEN got.val ELSE acc
           /\ last' = Op("__get__", r, f, None, got.err, got.val, 0)
    /\ nops' = nops + 1
    /\ UNCHANGED <<model, inst, db, dirty>>

\* r.f = value, for a raw value or for the Markup the caller holds
Set(r, f, value) ==
    /\ nops < MaxOps
    /\ inst' = MarkupDescriptor_set(inst, r, f, value)
    /\ dirty' = IF IsMarkup(value) THEN [dirty EXCEPT ![<<r, f>>] = TRUE] ELSE dirty
    /\ last' = Op("__set__", r, f, value, None, None, 0)
    /\ nops' = nops + 1
    /\ UNCHANGED <<model, acc, db>>

\* a.raw = val
SetRaw(val) ==
    /\ nops < MaxOps
    /\ IsMarkup(acc)
    /\ inst' = Markup_set_raw(inst, acc, val)
    /\ last' = Op("_set_raw", acc.instance, acc.field_name, val, None, None, 0)
    /\ nops' = nops + 1
    /\ UNCHANGED <<model, acc, db, dirty>>

\* a.markup_type = val
SetMarkupType(val) ==
    /\ nops < MaxOps
    /\ IsMarkup(acc)
    /\ inst' = Markup_set_markup_type(inst, acc, val)
    /\ last' = Op("_set_markup_type", acc.instance, acc.field_name, val, None, None, 0)
    /\ nops' = nops + 1
    /\ UNCHANGED <<model, acc, db, dirty>>

\* r.f_markup_type = val: the companion CharField is a plain attribute
SetMarkupTypeAttr(r, f, val) ==
    /\ nops < MaxOps
    /\ inst' = [inst EXCEPT ![r][_markup_type_field_name(f)] = val]
    /\ last' = Op("setattr_markup_type", r, f, val, None, None, 0)
    /\ nops' = nops + 1
    /\ UNCHANGED <<model, acc, db, dirty>>

\* the save of r reaches field f's pre_save
PreSave(r, f) ==
    /\ nops < MaxOps
    /\ \E out \in pre_save(inst, r, f) :
          /\ inst' = out.inst
          /\ last' = Op("pre_save", r, f, None, out.err, out.ret, out.calls)
          /\ db' = IF out.err = None
                   THEN [db EXCEPT ![<<r, f>>] =
                           [raw |-> get_db_prep_value(out.inst, out.ret),
                            markup_type |-> out.inst[r][_markup_type_field_name(f)],
                            rendered |-> out.inst[r][_rendered_field_name(f)]]]
                   ELSE db
          /\ dirty' = IF out.err = None
                      THEN [dirty EXCEPT ![<<r, f>>] = FALSE]
                      ELSE dirty
    /\ nops' = nops + 1
    /\ UNCHANGED <<model, acc>>

\* field.value_to_string(r), the export of the field
ValueToString(r, f) ==
    /\ nops < MaxOps
    /\ LET out == value_to_string(inst, r, f)
       IN  last' = Op("value_to_string", r, f, None, out.err, out.ret, 0)
    /\ nops' = nops + 1
    /\ UNCHANGED <<model, inst, acc, db, dirty>>

\* a.raw, a.markup_type and a.rendered read through the Markup that the
\* caller holds
ReadMarkup ==
    /\ nops < MaxOps
    /\ IsMarkup(acc)
    /\ last' = Op("read_markup", acc.instance, acc.field_name, acc, None,
                  [raw |-> Markup_get_raw(inst, acc),
                   markup_type |-> Markup_get_markup_type(inst, acc),
                   rendered |-> Markup_get_rendered(inst, acc)], 0)
    /\ nops' = nops + 1
    /\ UNCHANGED <<model, inst, acc, db, dirty>>

Next ==
    \/ \E h \in Hosts : Get(h[1], h[2])
    \/ \E h \in Hosts, v \in RawValues : Set(h[1], h[2], v)
    \/ \E h \in Hosts : IsMarkup(acc) /\ Set(h[1], h[2], acc)
    \/ \E v \in RawValues : SetRaw(v)
    \/ \E v \in MarkupTypeValues : SetMarkupType(v)
    \/ \E h \in Hosts, v \in MarkupTypeValues : SetMarkupTypeAttr(h[1], h[2], v)
    \/ \E h \in Hosts : PreSave(h[1], h[2])
    \/ \E h \in Hosts : ValueToString(h[1], h[2])
    \/ ReadMarkup

Spec == Init /\ [][Next]_vars

(***************************************************************************)
(* Field definition on its own: a class body evaluates                     *)
(* MarkupField(markup_type=.., markup_choices=.., default_markup_type=..)  *)
(* before any instance exists.                                             *)
(***************************************************************************)
MarkupTypeArgs ==
    {None, Str(""), Str("html"), Str("markdown"), Str("ReST"), Str("bogus")}

MarkupChoicesArgs ==
    {None, Dict([k \in {} |-> None]), _DEFAULT_MARKUP_TYPES,
     CUSTOM_MARKUP_FIELD_TYPES}

InitDef ==
    /\ model = "undefined"
    /\ inst = [r \in {} |-> None]
    /\ acc = None
    /\ db = [h \in {} |-> None]
    /\ dirty = [h \in {} |-> FALSE]
    /\ last = [op |-> "__init__"]
    /\ nops = 0

Define(markup_type, markup_choices, default_markup_type) ==
    /\ last' = [op |-> "MarkupField",
                markup_type |-> markup_type,
                markup_choices |-> markup_choices,
                default_markup_type |-> default_markup_type,
                field |-> MarkupField_init(markup_type, markup_choices,
                                           default_markup_type)]
    /\ UNCHANGED <<model, inst, acc, db, dirty, nops>>

NextDef ==
    \E mt \in MarkupTypeArgs, mc \in MarkupChoicesArgs, d \in MarkupTypeArgs :
        Define(mt, mc, d)

SpecDef == InitDef /\ [][NextDef]_vars

(***************************************************************************)
(* Properties.                                                             *)
(***************************************************************************)
\* The target of the latest operation and its three attributes now.
Cur == Slots(inst[last.rec], last.field)

Choices(f) == Field(f).markup_choices

Entry(f, markup_type) == Choices(f).val[markup_type.val]

\* What the renderer registered under markup_type can return for raw.
Renderings(f, markup_type, raw) ==
    IF Entry(f, markup_type).type = "function"
    THEN IF raw = None THEN {} ELSE {Call(Entry(f, markup_type), raw)}
    ELSE {res.val : res \in {x \in RestructuredtextMarkup_render(raw) : x.err = None}}

\* C1: a pre_save on a record whose markup type is a registry key mapped to
\* a plain function and whose raw text is not None succeeds, stores exactly
\* function(raw) in the rendered attribute, returns the raw text and leaves
\* raw text and markup type as they were, whatever operations came before.
C1_PreSaveRendersPlain ==
    (/\ last.op = "pre_save"
     /\ In(last.pre.markup_type, Choices(last.field))
     /\ Entry(last.field, last.pre.markup_type).type = "function"
     /\ last.pre.raw # None)
    => /\ last.err = None
       /\ Cur.rendered = Call(Entry(last.field, last.pre.markup_type), last.pre.raw)
       /\ last.ret = last.pre.raw
       /\ Cur.raw = last.pre.raw
       /\ Cur.markup_type = last.pre.markup_type

C1_Witness ==
    /\ last.op = "pre_save"
    /\ nops >= 3
    /\ In(last.pre.markup_type, Choices(last.field))
    /\ Entry(last.field, last.pre.markup_type).type = "function"
    /\ last.pre.raw \in Texts
    /\ last.ret = last.pre.raw
    /\ Cur.rendered # last.pre.rendered
    /\ Cur.rendered # Cur.raw

\* The latest operation was a pre_save on a record whose markup type was
\* not None and not a key of the field's registry.
InvalidTypeSave ==
    /\ last.op = "pre_save"
    /\ last.pre.markup_type # None
    /\ ~In(last.pre.markup_type, Choices(last.field))

\* Every outcome of a pre_save retried after the record's markup type
\* attribute is set to key k is a success.
RetrySucceeds(k) ==
    \A out \in pre_save([inst EXCEPT
                            ![last.rec][_markup_type_field_name(last.field)] = Str(k)],
                        last.rec, last.field) :
        out.err = None

\* C2 as stated: a pre_save on a record with an invalid markup type aborts
\* with an error and leaves the three attributes as they were, and a
\* pre_save retried after the markup type is set to any valid key succeeds.
C2_Original ==
    InvalidTypeSave
    => /\ last.err # None
       /\ Cur = last.pre
       /\ \A k \in DOMAIN Choices(last.field).val : RetrySucceeds(k)

\* C2 amended: as above, the retried pre_save succeeding whenever the raw
\* text is not None.
C2_FailedSaveKeepsState ==
    InvalidTypeSave
    => /\ last.err # None
       /\ Cur = last.pre
       /\ (Cur.raw # None =>
              \A k \in DOMAIN Choices(last.field).val : RetrySucceeds(k))

C2_Witness ==
    /\ InvalidTypeSave
    /\ last.err # None
    /\ Cur.raw \in Texts
    /\ Cur.rendered # Str("")
    /\ db[<<last.rec, last.field>>] # None

\* C3: whatever reached storage from a successful pre_save carried a markup
\* type that is a key of the field's registry, and every successful
\* pre_save ran on such a markup type.
C3_StoredTypeIsKey ==
    /\ \A h \in Hosts : db[h] # None => In(db[h].markup_type, Choices(h[2]))
    /\ (last.op = "pre_save" /\ last.err = None)
          => In(last.pre.markup_type, Choices(last.field))

C3_Witness ==
    /\ last.op = "pre_save"
    /\ last.err # None
    /\ db[<<last.rec, last.field>>] # None
    /\ Cur.markup_type # None
    /\ ~In(Cur.markup_type, Choices(last.field))
    /\ In(db[<<last.rec, last.field>>].markup_type, Choices(last.field))

\* C4: assigning the Markup that the caller holds (bound to any instance
\* and field) to field f of r makes r's three attributes equal to the raw,
\* markup_type and rendered values the Markup had, and calls no renderer.
C4_SnapshotCopiesVerbatim ==
    [][(last'.op = "__set__" /\ IsMarkup(last'.arg))
       => /\ Slots(inst'[last'.rec], last'.field) =
                [raw |-> Markup_get_raw(inst, last'.arg),
                 markup_type |-> Markup_get_markup_type(inst, last'.arg),
                 rendered |-> Markup_get_rendered(inst, last'.arg)]
          /\ last'.calls = 0
          /\ last'.err = None]_vars

\* A Markup of another host was assigned whose rendered value is not what
\* the target's renderer gives for the copied raw text.
C4_Witness ==
    /\ last.op = "__set__"
    /\ IsMarkup(last.arg)
    /\ <<last.arg.instance, last.arg.field_name>> # <<last.rec, last.field>>
    /\ Cur # last.pre
    /\ Cur.raw \in Texts
    /\ Cur.raw = Markup_get_raw(inst, last.arg)
    /\ Cur.markup_type # last.pre.markup_type
    /\ In(Cur.markup_type, Choices(last.field))
    /\ Cur.rendered \notin Renderings(last.field, Cur.markup_type, Cur.raw)

\* C5 as stated: once a field has been persisted, its rendered attribute is
\* what the renderer of the last persisted markup type gives for the last
\* persisted raw text.
C5_Original ==
    \A h \in Hosts :
        db[h] # None
        => /\ inst[h[1]][_rendered_field_name(h[2])] = db[h].rendered
           /\ db[h].rendered \in Renderings(h[2], db[h].markup_type, db[h].raw)

\* C5 amended: the same for every field to which no Markup has been
\* assigned since its last successful pre_save.
C5_RenderedIsLastSave ==
    \A h \in Hosts :
        (db[h] # None /\ ~dirty[h])
        => /\ inst[h[1]][_rendered_field_name(h[2])] = db[h].rendered
           /\ db[h].rendered \in Renderings(h[2], db[h].markup_type, db[h].raw)

\* The in-memory raw text and markup type have both moved on since the save.
C5_Witness ==
    \E h \in Hosts :
        /\ db[h] # None
        /\ ~dirty[h]
        /\ inst[h[1]][h[2]] # db[h].raw
        /\ inst[h[1]][_markup_type_field_name(h[2])] # db[h].markup_type
        /\ inst[h[1]][_rendered_field_name(h[2])] = db[h].rendered
        /\ db[h].rendered # db[h].raw

\* C6 as stated: after a markup type that is neither None nor a registry
\* key has been written, a read of the field raises nothing and yields a
\* Markup bound to the field whose markup_type is the written value.
C6_Original ==
    (/\ last.op = "__get__"
     /\ last.pre.markup_type # None
     /\ ~In(last.pre.markup_type, Choices(last.field)))
    => /\ last.err = None
       /\ IsMarkup(last.ret)
       /\ last.ret.instance = last.rec
       /\ last.ret.field_name = last.field
       /\ Markup_get_markup_type(inst, last.ret) = last.pre.markup_type

\* The field was declared with a fixed markup type.
Fixed(f) == ~Field(f).markup_type_editable

\* C7 as stated: on a field declared with a fixed markup type, a write of
\* the markup type through the Markup object is rejected or ignored, so
\* that the record keeps the markup type it had.
C7_Original ==
    (last.op = "_set_markup_type" /\ Fixed(last.field))
    => Cur = last.pre

\* C7 amended: a field declared with a fixed markup type starts every new
\* record at that type and marks the type as not editable, but a write of
\* the markup type through the Markup object is neither rejected nor
\* ignored: the attribute takes the written value, and a successful
\* pre_save stores what the renderer of the record's markup type at that
\* moment returns.
C7_FixedTypeIsOnlyDefault ==
    /\ \A f \in FieldNames(model) :
          Fixed(f) => NewInstance(model)[_markup_type_field_name(f)] =
                         Field(f).default_markup_type
    /\ (last.op = "_set_markup_type" /\ Fixed(last.field))
          => /\ last.err = None
             /\ Cur = [last.pre EXCEPT !.markup_type = last.arg]
    /\ (last.op = "pre_save" /\ Fixed(last.field) /\ last.err = None)
          => /\ Cur.markup_type = last.pre.markup_type
             /\ Cur.rendered \in
                   Renderings(last.field, last.pre.markup_type, last.pre.raw)

\* A record of the fixed-type field saved under another type.
C7_Witness ==
    /\ last.op = "pre_save"
    /\ Fixed(last.field)
    /\ last.err = None
    /\ Cur.markup_type # Field(last.field).default_markup_type
    /\ Cur.raw \in Texts
    /\ Cur.rendered \notin
          Renderings(last.field, Field(last.field).default_markup_type, Cur.raw)

\* C8 as stated: a pre_save on a record whose markup type names no key of
\* the registry raises the ValueError that shows the invalid type and lists
\* the registry's keys.
C8_Original ==
    (/\ last.op = "pre_save"
     /\ last.pre.markup_type # None
     /\ ~In(last.pre.markup_type, Choices(last.field)))
    => /\ last.err.type = "ValueError"
       /\ last.err.shown = last.pre.markup_type
       /\ last.err.allowed = DOMAIN Choices(last.field).val

\* An argument of MarkupField was given.
Given(v) == v # None

\* C9 as stated: a definition succeeds only when exactly one of a fixed
\* markup type and a registry with a default markup type is given; one
\* that gives neither, or a default without a registry, is rejected.
C9_Original ==
    last.op = "MarkupField"
    => /\ last.field.err = None
          => (Given(last.markup_type)
                 # (Given(last.markup_choices) /\ Given(last.default_markup_type)))
       /\ (~Given(last.markup_type) /\ ~Given(last.markup_choices))
          => last.field.err # None

\* C9 amended: a definition that gives nothing is accepted (no default
\* type, the process-wide registry, type editable); one that gives only a
\* default markup type is accepted exactly when the default is a key of the
\* process-wide registry; and no accepted definition gives a fixed type
\* together with a registry or a default, or a registry without a default
\* (an empty string or an empty registry counting as not given).
C9_DefinitionAccepted ==
    last.op = "MarkupField"
    => /\ (~Truthy(last.markup_type) /\ ~Truthy(last.markup_choices)
              /\ ~Truthy(last.default_markup_type))
          => /\ last.field.err = None
             /\ last.field.markup_choices = _MARKUP_TYPES
             /\ ~Truthy(last.field.default_markup_type)
             /\ last.field.markup_type_editable = (last.markup_type = None)
       /\ (~Truthy(last.markup_type) /\ ~Truthy(last.markup_choices)
              /\ Truthy(last.default_markup_type))
          => /\ (last.field.err = None)
                   = (last.default_markup_type.val \in DOMAIN _MARKUP_TYPES.val)
             /\ last.field.err = None
                   => /\ last.field.default_markup_type = last.default_markup_type
                      /\ last.field.markup_choices = _MARKUP_TYPES
       /\ last.field.err = None
          => /\ ~(Truthy(last.markup_type) /\ Truthy(last.markup_choices))
             /\ ~(Truthy(last.markup_type) /\ Truthy(last.default_markup_type))
             /\ Truthy(last.markup_choices) => Truthy(last.default_markup_type)

\* MarkupField() as in Post.body, and MarkupField(default_markup_type=..)
\* as in Article.default_field, are accepted.
C9_Witness ==
    /\ last.op = "MarkupField"
    /\ last.markup_type = None
    /\ last.markup_choices = None
    /\ last.default_markup_type \in {None, Str("markdown")}
    /\ last.field.err = None
    /\ last.field.markup_type_editable

\* C10: with a markup type that is None or a registry key, a read of the
\* field yields None when the markup type is None, None when the registry
\* entry is a plain function and the raw text is None, and otherwise a
\* Markup bound to the instance and the field, of the registry entry's
\* class when the entry is a class and of class Markup when it is a function.
C10_ReadYields ==
    (/\ last.op = "__get__"
     /\ (last.pre.markup_type = None \/ In(last.pre.markup_type, Choices(last.field))))
    => /\ last.err = None
       /\ Cur = last.pre
       /\ IF last.pre.markup_type = None
          THEN last.ret = None
          ELSE IF Entry(last.field, last.pre.markup_type).type = "function"
                  /\ last.pre.raw = None
          THEN last.ret = None
          ELSE /\ IsMarkup(last.ret)
               /\ last.ret.instance = last.rec
               /\ last.ret.field_name = last.field
               /\ last.ret.type =
                     IF Entry(last.field, last.pre.markup_type).type = "function"
                     THEN "Markup"
                     ELSE Entry(last.field, last.pre.markup_type).name

\* A read under a class entry with a raw text of None yields that class.
C10_Witness ==
    /\ last.op = "__get__"
    /\ In(last.pre.markup_type, Choices(last.field))
    /\ Entry(last.field, last.pre.markup_type).type = "classobj"
    /\ last.pre.raw = None
    /\ last.ret.type = "RestructuredtextMarkup"
    /\ last.ret.instance = last.rec

\* C11: a write of a value that is no Markup to the field, directly or
\* through the raw property of a Markup, changes the raw text only, and a
\* write of the markup type changes the markup type only; the other two
\* attributes stay, and the rendered value read through a Markup of the
\* field is the one cached before the write.
C11_WriteTouchesOwnSlot ==
    /\ (last.op \in {"__set__", "_set_raw"} /\ ~IsMarkup(last.arg))
          => /\ Cur = [last.pre EXCEPT !.raw = last.arg]
             /\ Markup_get_rendered(inst, Markup("Markup", last.rec, last.field))
                   = last.pre.rendered
    /\ last.op \in {"_set_markup_type", "setattr_markup_type"}
          => /\ Cur = [last.pre EXCEPT !.markup_type = last.arg]
             /\ Markup_get_rendered(inst, Markup("Markup", last.rec, last.field))
                   = last.pre.rendered

\* A raw write after a save: the cache is still the render of the old text.
C11_Witness ==
    /\ last.op = "_set_raw"
    /\ last.arg \in Texts
    /\ last.arg # last.pre.raw
    /\ db[<<last.rec, last.field>>] # None
    /\ Cur.rendered = db[<<last.rec, last.field>>].rendered
    /\ Cur.rendered # Str("")
    /\ In(Cur.markup_type, Choices(last.field))
    /\ Cur.rendered \notin Renderings(last.field, Cur.markup_type, Cur.raw)

\* C12 as stated, for records that hold a text and a markup type: on a
\* record whose field has been persisted, value_to_string returns the
\* current raw text, raises nothing and changes none of the three attributes.
C12_Original ==
    (/\ last.op = "value_to_string"
     /\ db[<<last.rec, last.field>>] # None
     /\ last.pre.raw # None
     /\ last.pre.markup_type # None)
    => /\ last.err = None
       /\ last.ret = last.pre.raw
       /\ Cur = last.pre

\* The registry a definition ends up with, and its fixed or default type.
EffectiveRegistry == Or(last.markup_choices, _MARKUP_TYPES)

EffectiveType == Or(last.markup_type, last.default_markup_type)

\* C13: a definition is rejected with a ValueError, no instance existing,
\* when a fixed markup type is given together with a registry or a default
\* markup type, when a registry is given without a default markup type, and
\* when the fixed or default markup type given is not a key of the
\* effective registry (given: not None, not empty).
C13_DefinitionRejected ==
    last.op = "MarkupField"
    => /\ (Truthy(last.markup_type) /\ Truthy(last.markup_choices))
          => last.field.err.type = "ValueError"
       /\ (Truthy(last.markup_type) /\ Truthy(last.default_markup_type))
          => last.field.err.type = "ValueError"
       /\ (Truthy(last.markup_choices) /\ ~Truthy(last.default_markup_type))
          => last.field.err.type = "ValueError"
       /\ (Truthy(EffectiveType)
              /\ EffectiveType.val \notin DOMAIN EffectiveRegistry.val)
          => last.field.err.type = "ValueError"
       /\ DOMAIN inst = {}

\* A default markup type alone that the process-wide registry lacks.
C13_Witness ==
    /\ last.op = "MarkupField"
    /\ last.markup_type = None
    /\ last.markup_choices = None
    /\ last.default_markup_type = Str("ReST")
    /\ last.field.err.type = "ValueError"
    /\ last.field.err.allowed = DOMAIN _MARKUP_TYPES.val

\* The field of the latest operation read as None or could not be read
\* when the operation began.
ReadFailsBefore ==
    \/ last.pre.markup_type = None
    \/ ~In(last.pre.markup_type, Choices(last.field))
    \/ /\ Entry(last.field, last.pre.markup_type).type = "function"
       /\ last.pre.raw = None

\* C14 as stated: a successful pre_save invokes the renderer selected by the
\* markup type exactly once, a failed pre_save invokes none, and no other
\* operation invokes a renderer.
C14_Original ==
    /\ (last.op = "pre_save" /\ last.err = None)
          => /\ last.calls = 1
             /\ Cur.rendered \in
                   Renderings(last.field, last.pre.markup_type, last.pre.raw)
    /\ (last.op = "pre_save" /\ last.err # None) => last.calls = 0
    /\ last.op \in {"__get__", "__set__", "_set_raw", "_set_markup_type",
                    "setattr_markup_type", "value_to_string", "read_markup"}
          => last.calls = 0

\* C14 amended: a pre_save that fails before rendering (the field reads as
\* None or its markup type is no registry key) invokes no renderer; every
\* other pre_save invokes the renderer selected by the markup type exactly
\* once, and then either stores its result or fails with the exception the
\* renderer raised; no other operation invokes a renderer.
C14_RenderOncePerSave ==
    /\ (last.op = "pre_save" /\ ReadFailsBefore)
          => last.err # None /\ last.calls = 0
    /\ (last.op = "pre_save" /\ ~ReadFailsBefore)
          => /\ last.calls = 1
             /\ IF last.err = None
                THEN Cur.rendered \in
                        Renderings(last.field, last.pre.markup_type, last.pre.raw)
                ELSE /\ Cur = last.pre
                     /\ \E res \in RestructuredtextMarkup_render(last.pre.raw) :
                           res.err = last.err
    /\ last.op \in {"__get__", "__set__", "_set_raw", "_set_markup_type",
                    "setattr_markup_type", "value_to_string", "read_markup"}
          => last.calls = 0

\* A save through the render operation of a registry class.
C14_Witness ==
    /\ last.op = "pre_save"
    /\ last.err = None
    /\ Entry(last.field, last.pre.markup_type).type = "classobj"
    /\ last.calls = 1
    /\ last.pre.raw = Str("a")
    /\ Cur.rendered = Str("rest(a)")
    /\ last.pre.rendered # Cur.rendered

\* C15: the raw, markup_type and rendered values read through a Markup that
\* the caller obtained earlier are the current values of the three
\* attributes of the instance and field it is bound to, whatever was
\* written, assigned or saved since.
C15_MarkupReadsCurrentState ==
    last.op = "read_markup"
    => /\ last.arg = acc
       /\ last.rec = acc.instance
       /\ last.field = acc.field_name
       /\ last.ret = Slots(inst[acc.instance], acc.field_name)

\* The Markup is older than the state it reads: the field has been saved
\* and its markup type then replaced by one under which the field can no
\* longer be read.
C15_Witness ==
    /\ last.op = "read_markup"
    /\ db[<<last.rec, last.field>>] # None
    /\ MarkupDescriptor_get(inst[last.rec], last.rec, last.field).err # None
    /\ last.ret.markup_type = Cur.markup_type
    /\ last.ret.rendered = Cur.rendered
    /\ last.ret.rendered # last.ret.raw

\* The field of the latest operation read as None when the operation began.
ReadsNoneBefore ==
    \/ last.pre.markup_type = None
    \/ /\ In(last.pre.markup_type, Choices(last.field))
       /\ Entry(last.field, last.pre.markup_type).type = "function"
       /\ last.pre.raw = None

\* C16: a pre_save on a record whose field reads as None raises an error,
\* invokes no renderer and leaves the three attributes as they were; hence
\* every successful pre_save ran on a markup type other than None and on a
\* raw text other than None or a registry entry that is a class.
C16_NullFieldSaveFails ==
    /\ (last.op = "pre_save" /\ ReadsNoneBefore)
          => /\ last.err.type = "AttributeError"
             /\ last.calls = 0
             /\ Cur = last.pre
    /\ (last.op = "pre_save" /\ last.err = None)
          => /\ last.pre.markup_type # None
             /\ \/ last.pre.raw # None
                \/ Entry(last.field, last.pre.markup_type).type = "classobj"
    /\ \A h \in Hosts :
          db[h] # None
          => /\ db[h].markup_type # None
             /\ \/ db[h].raw # None
                \/ Entry(h[2], db[h].markup_type).type = "classobj"

\* A saved record whose raw text was then set to None is saved again.
C16_Witness ==
    /\ last.op = "pre_save"
    /\ last.pre.raw = None
    /\ In(last.pre.markup_type, Choices(last.field))
    /\ Entry(last.field, last.pre.markup_type).type = "function"
    /\ last.err.type = "AttributeError"
    /\ db[<<last.rec, last.field>>] # None
    /\ Cur.rendered # Str("")

\* The attribute dictionary d with every attribute that does not belong to
\* field f put back to its default.
OnlyField(d, f) ==
    [a \in DOMAIN d |->
        IF a \in {f, _markup_type_field_name(f), _rendered_field_name(f)}
        THEN d[a]
        ELSE NewInstance(model)[a]]

\* C17: every operation on one field of a record (read, raw write, markup
\* type write, assignment of a Markup, pre_save, failed or not) leaves the
\* three attributes of every other field, of that record and of the other
\* records, as they were, and what a read or a pre_save of the field yields
\* is decided by the field's own three attributes.
C17_OtherFieldsUntouched ==
    [][/\ DOMAIN inst' = DOMAIN inst
       /\ \A h \in Hosts :
             /\ DOMAIN inst'[h[1]] = DOMAIN inst[h[1]]
             /\ h # <<last'.rec, last'.field>>
                   => Slots(inst'[h[1]], h[2]) = Slots(inst[h[1]], h[2])
       /\ last'.op = "__get__"
             => MarkupDescriptor_get(OnlyField(inst[last'.rec], last'.field),
                                     last'.rec, last'.field)
                   = [err |-> last'.err, val |-> last'.ret]
       /\ last'.op = "pre_save"
             => \E out \in pre_save([inst EXCEPT ![last'.rec] =
                                        OnlyField(inst[last'.rec], last'.field)],
                                    last'.rec, last'.field) :
                   /\ out.err = last'.err
                   /\ out.ret = last'.ret
                   /\ Slots(out.inst[last'.rec], last'.field) =
                         Slots(inst'[last'.rec], last'.field)]_vars

\* A field of an Article is saved while another field of the same record
\* holds a saved text of its own.
C17_Witness ==
    /\ model = "Article"
    /\ last.op = "pre_save"
    /\ last.err = None
    /\ Cur.rendered # last.pre.rendered
    /\ \E f \in FieldNames(model) \ {last.field} :
          /\ db[<<last.rec, f>>] # None
          /\ Slots(inst[last.rec], f) # Slots(NewInstance(model), f)
          /\ inst[last.rec][_rendered_field_name(f)] # Cur.rendered

====
